---- MODULE Spec2Model ----
(***************************************************************************)
(* A model of the product matcher and the price store of the supermarket   *)
(* price tracker: src/src/matchers/product_matcher.py (ProductMatcher),    *)
(* src/src/main.py (SupermarketPriceTracker.save_prices, match_products),  *)
(* src/src/database/models.py (the four tables),                           *)
(* src/src/scrapers/rami_levy_scraper.py (names, sizes and records) and    *)
(* src/config/settings.py (the matching configuration).  The functions     *)
(* calculate_similarity, normalize_price and extract_product_size and the  *)
(* loop of SupermarketPriceTracker.run have specifications of their own.   *)
(*                                                                         *)
(* Names are sequences of one-character strings.  A similarity score is a  *)
(* fraction <<numerator, denominator>> with a positive denominator, so     *)
(* that comparisons with the threshold are exact.                          *)
(***************************************************************************)
EXTENDS Integers, Sequences, FiniteSets, TLC

VARIABLES
    products,       \* the committed rows of table products; a row's id is its index
    supermarkets,   \* the committed rows of table supermarkets
    prices,         \* the committed rows of table prices
    matches,        \* the committed rows of table product_matches
    writer,         \* the session whose transaction holds uncommitted writes, or 0
    max_matches,    \* ProductMatcher.max_matches
    listing,        \* the price list the scrapes read
    pc,             \* per session: "idle", or "scan" inside match_all_products
    run_products,   \* per session: the products the loop of its run has yet to do
    pending,        \* per session: the ProductMatch rows added and not committed
    found,          \* per session: the locals of its last find_matches call
    runs,           \* the log of the match_all_products runs, by run number
    simA, simB, simOut, simPc,  \* calculate_similarity: arguments, result, position
    convPrice, convFrom, convTo, \* normalize_price: arguments of the first call
    convOut, convBack,          \* its result, and the result of the call back
    convPc,                     \* position of the two calls
    sizeName, sizeOut, sizePc,  \* extract_product_size: argument, result, position
    loopPc,                     \* the step the loop of run() is at
    collected,                  \* the chains whose scrape delivered, this cycle
    outcome                     \* how the last cycle of the loop ended

storeVars == <<products, supermarkets, prices, matches, writer, max_matches, listing>>

sessVars == <<pc, run_products, pending, found>>

simVars == <<simA, simB, simOut, simPc>>

convVars == <<convPrice, convFrom, convTo, convOut, convBack, convPc>>

sizeVars == <<sizeName, sizeOut, sizePc>>

loopVars == <<loopPc, collected, outcome>>

\* The variables of the functions specified by their inputs alone, and of
\* the loop of run() specified by its steps alone.
fnVars == <<simVars, convVars, sizeVars, loopVars>>

vars == <<storeVars, sessVars, runs, fnVars>>

(***************************************************************************)
(* Bounds of the model.                                                    *)
(***************************************************************************)
\* Longest name drawn as an input of calculate_similarity.
MaxLen == 3

\* Most match_all_products runs.
MaxRuns == 2

\* Largest max_matches the configuration is drawn from.
MaxCap == 1

\* Largest price drawn as an input of normalize_price (whole shekels).
MaxPrice == 9

\* Most rows of table prices.
MaxPriceRows == 3

\* Largest number drawn for the size phrase of a name, besides 500.
MaxSize == 12

(***************************************************************************)
(* Strings.                                                                *)
(***************************************************************************)
\* str.lower() on one character of the model's alphabet.
LowerChar(c) ==
    CASE c = "A" -> "a"
      [] c = "B" -> "b"
      [] c = "C" -> "c"
      [] c = "D" -> "d"
      [] OTHER -> c

\* str.lower(): every character case-folded, the length kept.
Lower(s) == [i \in 1..Len(s) |-> LowerChar(s[i])]

Max2(x, y) == IF x >= y THEN x ELSE y

Min2(x, y) == IF x <= y THEN x ELSE y

\* The strings of length at most n over the alphabet.
StringsUpTo(alphabet, n) == UNION {[1..k -> alphabet] : k \in 0..n}

(***************************************************************************)
(* Levenshtein.ratio: the normalized indel similarity.  The library        *)
(* computes the length of a longest common subsequence and returns         *)
(* 2 * lcs / (len(a) + len(b)), and 1.0 when both strings are empty.       *)
(***************************************************************************)
RECURSIVE LcsLen(_, _, _, _)
LcsLen(a, b, i, j) ==
    IF i = 0 \/ j = 0 THEN 0
    ELSE IF a[i] = b[j] THEN 1 + LcsLen(a, b, i - 1, j - 1)
    ELSE Max2(LcsLen(a, b, i - 1, j), LcsLen(a, b, i, j - 1))

ratio(a, b) ==
    LET lensum == Len(a) + Len(b)
    IN  IF lensum = 0 THEN <<1, 1>>
        ELSE <<2 * LcsLen(a, b, Len(a), Len(b)), lensum>>

\* A variant that compares the names as written, without case folding.
calculate_similarityNoFold(name1, name2) == ratio(name1, name2)

\* A variant that lower-cases the first name only.
calculate_similarityFoldFirst(name1, name2) == ratio(Lower(name1), name2)

\* ProductMatcher.calculate_similarity
calculate_similarity(name1, name2) == ratio(Lower(name1), Lower(name2))

(***************************************************************************)
(* Fractions.                                                              *)
(***************************************************************************)
ScoreEq(x, y) == x[1] * y[2] = y[1] * x[2]

ScoreGe(x, y) == x[1] * y[2] >= y[1] * x[2]

ScoreGt(x, y) == x[1] * y[2] > y[1] * x[2]

(***************************************************************************)
(* The store and the configuration.                                        *)
(***************************************************************************)
\* The sessions: each is one tracker process with its own database session,
\* which its ProductMatcher shares (main.py, lines 60-61).
Sessions == {1, 2}

\* PRODUCT_MATCHING['similarity_threshold']: MATCHING_THRESHOLD, 0.8 by default.
similarity_threshold == <<4, 5>>

\* The values max_matches is drawn from: None, or a positive integer.
MaxMatchesUnset == [set |-> FALSE, n |-> 0]

MaxMatchesOptions ==
    {MaxMatchesUnset} \cup {[set |-> TRUE, n |-> k] : k \in 1..MaxCap}

\* The names the scraped records carry.
NameAb == <<"a", "b">>

NameAbc == <<"a", "b", "c">>

NameAbd == <<"a", "b", "d">>

(***************************************************************************)
(* RamiLevyScraper.normalize_product_name.  A name is a sequence of         *)
(* symbols: letters, digits, ".", " ", other punctuation, and one symbol    *)
(* for each of the five unit words the scraper knows.                       *)
(***************************************************************************)
\* The retailer's brand, which the first two substitutions strip.
Brand == <<"r", "l">>

Digits == {"0", "1", "2", "3", "4", "5", "6", "7", "8", "9"}

\* The unit words of the size patterns, in the order the patterns are written:
\* kilogram, gram, litre, millilitre, unit.
UnitWords == <<"KG", "GRAM", "LITER", "ML", "UNIT">>

UnitWordSet == {UnitWords[i] : i \in DOMAIN UnitWords}

\* The characters that are neither word characters nor whitespace.
Punctuation == {".", "-", "!", ","}

\* The subsequence of s at the indices in I.
Pick(s, I) ==
    [k \in 1..Cardinality(I \cap DOMAIN s) |->
        s[CHOOSE i \in I \cap DOMAIN s :
              Cardinality({j \in I \cap DOMAIN s : j <= i}) = k]]

\* The last index of the longest run of characters of chars that starts at
\* index i; i - 1 if s[i] is none of them.
RunEnd(s, i, chars) ==
    CHOOSE k \in (i - 1)..Len(s) :
        /\ \A j \in i..k : s[j] \in chars
        /\ k = Len(s) \/ s[k + 1] \notin chars

\* The index after the whitespace that follows index d.
AfterSpaces(s, d) == RunEnd(s, d + 1, {" "}) + 1

\* Where the number of a size phrase that starts at index i ends: digits,
\* then optionally "." and digits.  0 if no number starts at i.  Two ends are
\* possible when a fraction follows; the pattern tries the longer first.
NumberEnds(s, i) ==
    IF s[i] \notin Digits THEN <<>>
    ELSE LET d1 == RunEnd(s, i, Digits)
         IN  IF d1 + 2 <= Len(s) /\ s[d1 + 1] = "." /\ s[d1 + 2] \in Digits
             THEN <<RunEnd(s, d1 + 2, Digits), d1>>
             ELSE <<d1>>

\* Where a match of \d+(?:\.\d+)?\s*word that starts at index i ends, for a
\* word of the set words; 0 if there is none.
PhraseEnd(s, i, words) ==
    LET ends == NumberEnds(s, i)
        ok == {n \in DOMAIN ends : /\ AfterSpaces(s, ends[n]) <= Len(s)
                                   /\ s[AfterSpaces(s, ends[n])] \in words}
    IN  IF ok = {} THEN 0
        ELSE AfterSpaces(s, ends[CHOOSE n \in ok : \A m \in ok : n <= m])

\* The indices of s inside a size phrase.
SizeIndices(s) ==
    UNION {i..PhraseEnd(s, i, UnitWordSet) : i \in DOMAIN s}

normalize_product_name(name) ==
    LET hasPrefix == Len(name) >= Len(Brand) /\ SubSeq(name, 1, Len(Brand)) = Brand
        n1 == IF hasPrefix
              THEN SubSeq(name, AfterSpaces(name, Len(Brand)), Len(name))
              ELSE name
        hasSuffix == /\ Len(n1) >= Len(Brand)
                     /\ SubSeq(n1, Len(n1) - Len(Brand) + 1, Len(n1)) = Brand
        body == {i \in DOMAIN n1 : i <= Len(n1) - Len(Brand)}
        n2 == IF hasSuffix
              THEN Pick(n1, {i \in body : \E j \in body : j >= i /\ n1[j] # " "})
              ELSE n1
        n3 == Pick(n2, DOMAIN n2 \ SizeIndices(n2))
        n4 == Pick(n3, {i \in DOMAIN n3 : n3[i] \notin Punctuation})
        n5 == Pick(n4, {i \in DOMAIN n4 : ~(n4[i] = " " /\ i > 1 /\ n4[i - 1] = " ")})
    IN  Pick(n5, {i \in DOMAIN n5 :
                     /\ \E j \in DOMAIN n5 : j <= i /\ n5[j] # " "
                     /\ \E j \in DOMAIN n5 : j >= i /\ n5[j] # " "})

\* The keys of a record as RamiLevyScraper.parse_price_list builds it.
ScraperKeys == {"name", "normalized_name", "price", "size", "unit", "chain_id",
                "collected_at"}

\* A record as RamiLevyScraper.parse_price_list builds it from a row of the
\* price list: size and unit default to (1.0, 'unit') for a name without a
\* size phrase, and the record has no branch_id.
ScrapedRecord(name) ==
    [name |-> name, size |-> 1, unit |-> "unit", price |-> 10,
     chain_id |-> "rami_levy", branch_id |-> "", keys |-> ScraperKeys]

\* A price list of the chain, row by row.
Listing == <<ScrapedRecord(NameAb), ScrapedRecord(NameAbc), ScrapedRecord(NameAbd)>>

NameBrandAb == Brand \o NameAb

\* The keys save_prices reads from a record without a default.
CompleteKeys == ScraperKeys \cup {"chain_name", "branch_id", "branch_name", "address"}

\* A record of a scraper that also reports the branch: one that save_prices
\* saves without an error.
CompleteRecord(name) ==
    [name |-> name, size |-> 1, unit |-> "unit", price |-> 10,
     chain_id |-> "shufersal", branch_id |-> "1", keys |-> CompleteKeys]

\* The price lists of two chains, one after the other: the first lists one
\* product in two rows, the second lists the same product under its brand.
ListingChains ==
    <<CompleteRecord(NameAb), CompleteRecord(NameAb), ScrapedRecord(NameBrandAb)>>

\* The price lists a run of the tracker may be reading.
Listings == {Listing, ListingChains}

\* The batches collect_prices may hand to save_prices: the rows of the list
\* that the scrapes got to, none if they failed.
Batches == {SubSeq(listing, 1, k) : k \in 0..Len(listing)}

\* The orders in which a query without ORDER BY may return the rows ids.
Orders(ids) ==
    {f \in [1..Cardinality(ids) -> ids] : \A i, j \in DOMAIN f : i # j => f[i] # f[j]}

NoFind == [called |-> FALSE, product |-> 0, seen |-> 0,
           matches |-> <<>>, result |-> <<>>]

\* The store as created by init_db, every session idle.
StoreIdle ==
    /\ products = <<>>
    /\ supermarkets = <<>>
    /\ prices = <<>>
    /\ matches = {}
    /\ writer = 0
    /\ pc = [s \in Sessions |-> "idle"]
    /\ run_products = [s \in Sessions |-> {}]
    /\ pending = [s \in Sessions |-> {}]
    /\ found = [s \in Sessions |-> NoFind]
    /\ runs = <<>>

(***************************************************************************)
(* ProductMatcher.find_matches.                                            *)
(***************************************************************************)
\* A variant of the filter that keeps the products after the given one only.
OtherIdsLater(product) == {o \in 1..Len(products) : o > product}

\* A variant of the filter that lets the product itself through.
OtherIdsUnfiltered(product) == 1..Len(products)

\* The filter of the query: every product but the one given.
OtherIds(product) == (1..Len(products)) \ {product}

\* The test of line 77 with > in place of >=.
QualifiesStrict(similarity) == ScoreGt(similarity, similarity_threshold)

\* The test of line 77.
Qualifies(similarity) == ScoreGe(similarity, similarity_threshold)

\* The loop of lines 75-78 over all_products, in its order.
RECURSIVE Collect(_, _, _)
Collect(product, all_products, i) ==
    IF i > Len(all_products) THEN <<>>
    ELSE LET other == all_products[i]
             similarity == calculate_similarity(products[product].name,
                                                products[other].name)
             rest == Collect(product, all_products, i + 1)
         IN  IF Qualifies(similarity)
             THEN <<[id |-> other, score |-> similarity]>> \o rest
             ELSE rest

\* One insertion of the stable sort: x goes behind every element whose score
\* is at least its own.
InsertDesc(sorted, x) ==
    LET k == Cardinality({i \in DOMAIN sorted : ScoreGe(sorted[i].score, x.score)})
    IN  SubSeq(sorted, 1, k) \o <<x>> \o SubSeq(sorted, k + 1, Len(sorted))

\* list.sort(key=score, reverse=True): descending, equal scores in their order.
RECURSIVE SortDesc(_)
SortDesc(seq) ==
    IF seq = <<>> THEN <<>>
    ELSE InsertDesc(SortDesc(SubSeq(seq, 1, Len(seq) - 1)), seq[Len(seq)])

\* matches[:self.max_matches]
Truncate(seq, mm) ==
    IF mm.set THEN SubSeq(seq, 1, Min2(mm.n, Len(seq))) ELSE seq

\* The locals of find_matches(product) when the query returns all_products.
find_matches(product, all_products) ==
    LET unsorted == Collect(product, all_products, 1)
        sorted == SortDesc(unsorted)
    IN  [called |-> TRUE, product |-> product, seen |-> Len(products),
         matches |-> sorted, result |-> Truncate(sorted, max_matches)]

(***************************************************************************)
(* SupermarketPriceTracker.save_prices.                                    *)
(***************************************************************************)
Tables == [products |-> products, supermarkets |-> supermarkets, prices |-> prices]

\* A variant of the lookup that finds no row.
FirstIdNone(ids) == 0

\* query(...).filter_by(...).first(): the first of the matching row ids, or 0.
FirstId(ids) ==
    IF ids = {} THEN 0 ELSE CHOOSE i \in ids : \A j \in ids : i <= j

\* A variant of the insertion that overwrites the latest row of the same
\* product and supermarket, if there is one.
AddPriceUpsert(rows, row) ==
    LET same == {i \in DOMAIN rows : /\ rows[i].product_id = row.product_id
                                      /\ rows[i].supermarket_id = row.supermarket_id}
    IN  IF same = {} THEN Append(rows, row)
        ELSE [rows EXCEPT ![CHOOSE i \in same : \A j \in same : j <= i] = row]

\* session.add(price): a new row of table prices.
AddPrice(rows, row) == Append(rows, row)

\* The body of the loop of save_prices for one record, on the tables as the
\* session sees them.  A key the record lacks raises KeyError where it is
\* read; the handler of line 133 logs it and goes on to the next record, and
\* what the session had added before stays added.
SaveOne(tb, price_data) ==
    LET has(k) == k \in price_data.keys
        IsProduct(row) ==
            /\ row.name = price_data.name
            /\ row.size = price_data.size
            /\ row.unit = price_data.unit
        IsSupermarket(row) ==
            /\ row.chain_id = price_data.chain_id
            /\ row.branch_id = price_data.branch_id
        oldProduct == FirstId({i \in DOMAIN tb.products : IsProduct(tb.products[i])})
        withProduct ==
            IF oldProduct # 0 THEN tb
            ELSE [tb EXCEPT !.products =
                     Append(@, [name |-> price_data.name, size |-> price_data.size,
                                unit |-> price_data.unit])]
        product == IF oldProduct # 0 THEN oldProduct ELSE Len(withProduct.products)
        oldMarket == FirstId({i \in DOMAIN tb.supermarkets : IsSupermarket(tb.supermarkets[i])})
        withMarket ==
            IF oldMarket # 0 THEN withProduct
            ELSE [withProduct EXCEPT !.supermarkets =
                     Append(@, [chain_id |-> price_data.chain_id,
                                branch_id |-> price_data.branch_id])]
        supermarket == IF oldMarket # 0 THEN oldMarket ELSE Len(withMarket.supermarkets)
    IN  IF ~(has("name") /\ has("size") /\ has("unit")) THEN tb
        ELSE IF ~(has("chain_id") /\ has("branch_id")) THEN withProduct
        ELSE IF oldMarket = 0
                /\ ~(has("chain_name") /\ has("branch_name") /\ has("address"))
             THEN withProduct
        ELSE IF ~has("price") THEN withMarket
        ELSE [withMarket EXCEPT !.prices =
                 AddPrice(@, [product_id |-> product, supermarket_id |-> supermarket,
                              price |-> price_data.price])]

\* The loop of save_prices over the batch.
RECURSIVE SaveAll(_, _, _)
SaveAll(tb, batch, i) ==
    IF i > Len(batch) THEN tb ELSE SaveAll(SaveOne(tb, batch[i]), batch, i + 1)

\* save_prices(prices) by session s, with its commit: the commit is the
\* session's, so it also persists the ProductMatch rows the session still
\* holds.  The call waits while another session holds uncommitted writes.
SavePrices(s) ==
    /\ pc[s] = "idle"
    /\ writer \in {0, s}
    /\ \E batch \in Batches :
          LET tb == SaveAll(Tables, batch, 1)
          IN  /\ Len(tb.prices) <= MaxPriceRows
              /\ products' = tb.products
              /\ supermarkets' = tb.supermarkets
              /\ prices' = tb.prices
    /\ matches' = matches \cup pending[s]
    /\ pending' = [pending EXCEPT ![s] = {}]
    /\ writer' = 0
    /\ UNCHANGED <<max_matches, listing, pc, run_products, found, runs, fnVars>>

(***************************************************************************)
(* ProductMatcher.match_all_products, called by match_products.            *)
(***************************************************************************)
\* A query of session s flushes the rows the session has added: it needs the
\* store's write transaction if there are any, and holds it from then on.
CanFlush(s) == pending[s] # {} => writer \in {0, s}

WriterAfterFlush(s) == IF pending[s] # {} THEN s ELSE writer

\* The number of the current, or else the last, run of session s; 0 if none.
CurRun(s) ==
    LET mine == {r \in DOMAIN runs : runs[r].session = s}
    IN  IF mine = {} THEN 0 ELSE CHOOSE r \in mine : \A q \in mine : q <= r

\* Lines 133-134: the query of all products.  The loop takes them in the
\* order the store returned them, which the model decides as the loop goes.
MatchStart(s) ==
    /\ pc[s] = "idle"
    /\ Len(runs) < MaxRuns
    /\ CanFlush(s)
    /\ writer' = WriterAfterFlush(s)
    /\ run_products' = [run_products EXCEPT ![s] = 1..Len(products)]
    /\ pc' = [pc EXCEPT ![s] = "scan"]
    /\ runs' = Append(runs,
                      [session |-> s, status |-> "active",
                       catalog |-> Len(products),
                       during |-> {r \in DOMAIN runs : runs[r].status = "active"}])
    /\ UNCHANGED <<products, supermarkets, prices, matches, max_matches, listing,
                   pending, found, fnVars>>

\* create_match for every element of the list find_matches returned.
NewRows(s, product, result) ==
    {[source_product_id |-> product, target_product_id |-> result[i].id,
      similarity_score |-> result[i].score, run |-> CurRun(s)] : i \in DOMAIN result}

\* Lines 136-140, one product of the loop: find_matches queries the products
\* anew, then create_match adds a row per match to the session.
Scan(s) ==
    /\ pc[s] = "scan"
    /\ CanFlush(s)
    /\ writer' = WriterAfterFlush(s)
    /\ \E product \in run_products[s] :
          /\ run_products' = [run_products EXCEPT ![s] = @ \ {product}]
          /\ \E all_products \in Orders(OtherIds(product)) :
                LET f == find_matches(product, all_products)
                IN  /\ found' = [found EXCEPT ![s] = f]
                    /\ pending' = [pending EXCEPT ![s] =
                                      @ \cup NewRows(s, product, f.result)]
    /\ UNCHANGED <<products, supermarkets, prices, matches, max_matches, listing,
                   pc, runs, fnVars>>

\* The scoring of one pair raises inside find_matches.  Neither find_matches
\* nor match_all_products handles it: the run ends without its commit, the
\* handler of match_products (main.py, line 145) logs the error, and the rows
\* the run had added stay in the session.
ScanRaise(s) ==
    /\ pc[s] = "scan"
    /\ CanFlush(s)
    /\ writer' = WriterAfterFlush(s)
    /\ \E product \in run_products[s] : OtherIds(product) # {}
    /\ runs' = [runs EXCEPT ![CurRun(s)].status = "failed"]
    /\ pc' = [pc EXCEPT ![s] = "idle"]
    /\ run_products' = [run_products EXCEPT ![s] = {}]
    /\ found' = [found EXCEPT ![s] = NoFind]
    /\ UNCHANGED <<products, supermarkets, prices, matches, max_matches, listing,
                   pending, fnVars>>

\* Lines 142-143: the commit at the end of the loop, and the return.
MatchCommit(s) ==
    /\ pc[s] = "scan"
    /\ run_products[s] = {}
    /\ CanFlush(s)
    /\ matches' = matches \cup pending[s]
    /\ pending' = [pending EXCEPT ![s] = {}]
    /\ writer' = IF writer = s THEN 0 ELSE writer
    /\ pc' = [pc EXCEPT ![s] = "idle"]
    /\ runs' = [runs EXCEPT ![CurRun(s)].status = "done"]
    /\ found' = [found EXCEPT ![s] = NoFind]
    /\ UNCHANGED <<products, supermarkets, prices, max_matches, listing,
                   run_products, fnVars>>

(***************************************************************************)
(* Python floats.  A float is an IEEE 754 binary64 number; the positive    *)
(* ones are modelled exactly: [none |-> FALSE, bits |-> b, exp |-> e] is   *)
(* the number (b[1] + 2*b[2] + ... + 2^52*b[53]) * 2^e, where b holds the  *)
(* 53 significant bits, lowest first, and b[53] = 1.  None is NoneValue.   *)
(***************************************************************************)
\* The significant bits of a binary64 number.
Precision == 53

NoneValue == [none |-> TRUE, bits |-> <<>>, exp |-> 0]

\* The index of the highest 1 of a bit sequence, 0 if there is none.
BitLen(bits) ==
    LET ones == {i \in DOMAIN bits : bits[i] = 1}
    IN  IF ones = {} THEN 0 ELSE CHOOSE i \in ones : \A j \in ones : j <= i

\* The float nearest to bits * 2^exp, ties to the even mantissa (the
\* rounding of every binary64 operation).
Round53(bits, exp) ==
    LET s == BitLen(bits) - Precision
        q == [i \in 1..Precision |-> IF i + s >= 1 THEN bits[i + s] ELSE 0]
        up == /\ s >= 1
              /\ bits[s] = 1
              /\ \/ \E i \in 1..(s - 1) : bits[i] = 1
                 \/ q[1] = 1
        zeros == {i \in 1..Precision : q[i] = 0}
        z == CHOOSE i \in zeros : \A j \in zeros : i <= j
    IN  IF ~up THEN [none |-> FALSE, bits |-> q, exp |-> exp + s]
        ELSE IF zeros = {}
             THEN [none |-> FALSE,
                   bits |-> [i \in 1..Precision |-> IF i = Precision THEN 1 ELSE 0],
                   exp |-> exp + s + 1]
        ELSE [none |-> FALSE,
              bits |-> [i \in 1..Precision |->
                           IF i < z THEN 0 ELSE IF i = z THEN 1 ELSE q[i]],
              exp |-> exp + s]

\* The sum of the first n entries of a sequence of numbers.
RECURSIVE SumOf(_, _)
SumOf(f, n) == IF n = 0 THEN 0 ELSE f[n] + SumOf(f, n - 1)

\* Long multiplication is done on digits of 12 bits, so that no intermediate
\* sum leaves the range of the model checker's integers.
Limb == 2^12

\* The 12-bit digits of a bit sequence, lowest first.
LimbsOf(bits) ==
    [k \in 1..((Len(bits) + 11) \div 12) |->
        SumOf([j \in 1..12 |->
                  IF 12 * (k - 1) + j <= Len(bits)
                  THEN bits[12 * (k - 1) + j] * 2^(j - 1) ELSE 0], 12)]

\* The bits of a sequence of 12-bit digits, lowest first.
BitsOf(limbs) ==
    [i \in 1..(12 * Len(limbs)) |->
        (limbs[((i - 1) \div 12) + 1] \div 2^((i - 1) % 12)) % 2]

\* The carries of a column-wise sum of digit products, from column k on.
RECURSIVE Carry(_, _, _)
Carry(cols, k, c) ==
    IF k > Len(cols) THEN <<>>
    ELSE <<(cols[k] + c) % Limb>> \o Carry(cols, k + 1, (cols[k] + c) \div Limb)

\* The exact product of two bit sequences.
MulBits(a, b) ==
    LET la == LimbsOf(a)
        lb == LimbsOf(b)
        cols == [k \in 1..(Len(la) + Len(lb)) |->
                    SumOf([i \in 1..Len(la) |->
                              IF (k + 1 - i) \in 1..Len(lb)
                              THEN la[i] * lb[k + 1 - i] ELSE 0], Len(la))]
    IN  BitsOf(Carry(cols, 1, 0))

\* x * y on floats: the exact product, rounded once.
FMul(x, y) == Round53(MulBits(x.bits, y.bits), x.exp + y.exp)

\* float(n) for a natural number n below 2^30.
FromNat(n) == Round53([i \in 1..30 |-> (n \div 2^(i - 1)) % 2], 0)

\* The bits of a hexadecimal numeral, lowest first.
HexBits(digits) ==
    [i \in 1..(4 * Len(digits)) |->
        (digits[Len(digits) - ((i - 1) \div 4)] \div 2^((i - 1) % 4)) % 2]

\* The literal 0.001: the float 0x1.0624dd2f1a9fcp-10.
Milli == Round53(HexBits(<<1, 0, 6, 2, 4, 13, 13, 2, 15, 1, 10, 9, 15, 12>>), -62)

\* The literal 1000.
Thousand == FromNat(1000)

(***************************************************************************)
(* ProductMatcher.normalize_price and the conversion table.                *)
(***************************************************************************)
\* The unit vocabulary: what extract_product_size returns as a unit.
Units == {"g", "kg", "ml", "l", "unit"}

\* A variant of the table with an entry from g to ml.
unit_conversionAcross ==
    ("ml" :> ("l" :> Milli)) @@ ("g" :> (("kg" :> Milli) @@ ("ml" :> FromNat(1))))
        @@ ("kg" :> ("g" :> Thousand)) @@ ("l" :> ("ml" :> Thousand))

\* A variant of the table whose factor from kg to g is 100.
unit_conversionSkewed ==
    ("ml" :> ("l" :> Milli)) @@ ("g" :> ("kg" :> Milli))
        @@ ("kg" :> ("g" :> FromNat(100))) @@ ("l" :> ("ml" :> Thousand))

\* PRODUCT_MATCHING['unit_conversion']: UNIT_CONVERSION.
unit_conversion ==
    ("ml" :> ("l" :> Milli)) @@ ("g" :> ("kg" :> Milli))
        @@ ("kg" :> ("g" :> Thousand)) @@ ("l" :> ("ml" :> Thousand))

\* Whether unit_conversion[from_unit][to_unit] raises no KeyError.
HasConversion(from_unit, to_unit) ==
    /\ from_unit \in DOMAIN unit_conversion
    /\ to_unit \in DOMAIN unit_conversion[from_unit]

normalize_price(price, from_unit, to_unit) ==
    IF from_unit = to_unit THEN price
    ELSE IF HasConversion(from_unit, to_unit)
         THEN FMul(price, unit_conversion[from_unit][to_unit])
    ELSE NoneValue

\* No call of normalize_price in progress.
ConvOff ==
    /\ convPrice = NoneValue
    /\ convFrom = "unit"
    /\ convTo = "unit"
    /\ convOut = NoneValue
    /\ convBack = NoneValue
    /\ convPc = "off"

(***************************************************************************)
(* RamiLevyScraper.extract_product_size.                                   *)
(***************************************************************************)
\* size_patterns, in the order of the dict: the unit word of the pattern,
\* the unit returned and the multiplier.
size_patterns ==
    <<[word |-> "KG", unit |-> "kg", multiplier |-> FromNat(1)],
      [word |-> "GRAM", unit |-> "g", multiplier |-> Milli],
      [word |-> "LITER", unit |-> "l", multiplier |-> FromNat(1)],
      [word |-> "ML", unit |-> "ml", multiplier |-> Milli],
      [word |-> "UNIT", unit |-> "unit", multiplier |-> FromNat(1)]>>

DigitSeq == <<"0", "1", "2", "3", "4", "5", "6", "7", "8", "9">>

\* int(numeral) for a numeral of digits.
RECURSIVE ParseNat(_)
ParseNat(numeral) ==
    IF numeral = <<>> THEN 0
    ELSE 10 * ParseNat(SubSeq(numeral, 1, Len(numeral) - 1))
             + ((CHOOSE d \in DOMAIN DigitSeq : DigitSeq[d] = numeral[Len(numeral)]) - 1)

\* float(match.group(1)) for a numeral of digits (the names the model draws
\* carry whole numbers).
ParseFloat(numeral) == FromNat(ParseNat(numeral))

\* Where the number of the match that starts at index i ends (group 1), for
\* the pattern of the unit words in words; 0 if there is no match at i.
GroupEnd(s, i, words) ==
    LET ends == NumberEnds(s, i)
        ok == {n \in DOMAIN ends : /\ AfterSpaces(s, ends[n]) <= Len(s)
                                   /\ s[AfterSpaces(s, ends[n])] \in words}
    IN  IF ok = {} THEN 0 ELSE ends[CHOOSE n \in ok : \A m \in ok : n <= m]

\* re.search: the first index at which the pattern of words matches; 0 if none.
SearchStart(s, words) ==
    LET starts == {i \in DOMAIN s : PhraseEnd(s, i, words) # 0}
    IN  IF starts = {} THEN 0 ELSE CHOOSE i \in starts : \A j \in starts : i <= j

extract_product_size(name) ==
    LET hits == {p \in DOMAIN size_patterns :
                    SearchStart(name, {size_patterns[p].word}) # 0}
        p == CHOOSE q \in hits : \A r \in hits : q <= r
        start == SearchStart(name, {size_patterns[p].word})
        group == SubSeq(name, start, GroupEnd(name, start, {size_patterns[p].word}))
    IN  IF hits = {} THEN [size |-> FromNat(1), unit |-> "unit"]
        ELSE [size |-> FMul(ParseFloat(group), size_patterns[p].multiplier),
              unit |-> size_patterns[p].unit]

\* No call of extract_product_size in progress.
SizeOff ==
    /\ sizeName = <<>>
    /\ sizeOut = [size |-> NoneValue, unit |-> "unit"]
    /\ sizePc = "off"

\* The loop of run() not started.
LoopOff ==
    /\ loopPc = "off"
    /\ collected = {}
    /\ outcome = "none"

\* No call of calculate_similarity in progress.
SimOff ==
    /\ simA = <<>>
    /\ simB = <<>>
    /\ simOut = <<0, 1>>
    /\ simPc = "off"

Init ==
    /\ StoreIdle
    /\ max_matches \in MaxMatchesOptions
    /\ listing \in Listings
    /\ SimOff
    /\ ConvOff
    /\ SizeOff
    /\ LoopOff

\* One tracker process: session 1 alone acts.
Next ==
    \/ SavePrices(1)
    \/ MatchStart(1)
    \/ Scan(1)
    \/ ScanRaise(1)
    \/ MatchCommit(1)

Spec == Init /\ [][Next]_vars

\* Two tracker processes on the same store, their steps interleaved.
ConcurrentNext ==
    \E s \in Sessions :
        \/ SavePrices(s)
        \/ MatchStart(s)
        \/ Scan(s)
        \/ ScanRaise(s)
        \/ MatchCommit(s)

SpecConcurrent == Init /\ [][ConcurrentNext]_vars

(***************************************************************************)
(* Claims about the store and the matcher.                                 *)
(***************************************************************************)
AllPending == UNION {pending[s] : s \in Sessions}

\* The committed rows that run r created.
RunRows(r) == {m \in matches : m.run = r}

SamePair(m1, m2) ==
    /\ m1.source_product_id = m2.source_product_id
    /\ m1.target_product_id = m2.target_product_id

NameOf(id) == products[id].name

\* C1 as stated: a match_all_products run that completes after an earlier
\* completed run, with the Product table as it was when the earlier run began,
\* creates no ProductMatch row.
C1_AsStated ==
    \A r1, r2 \in DOMAIN runs :
        /\ r1 < r2
        /\ r1 \notin runs[r2].during
        /\ runs[r1].status = "done"
        /\ runs[r2].status = "done"
        /\ runs[r1].catalog = Len(products)
        => RunRows(r2) = {}

\* C2 as stated: table product_matches never holds two rows with the same
\* (source_product_id, target_product_id).
C2_AsStated ==
    \A m1, m2 \in matches : SamePair(m1, m2) => m1 = m2

\* Two runs overlap when one began while the other was in progress.
Overlap(r1, r2) == r1 \in runs[r2].during \/ r2 \in runs[r1].during

\* C3 as stated: two match_all_products runs that overlap in time, each in
\* its own session, never both commit a row for the same
\* (source_product_id, target_product_id).
C3_AsStated ==
    \A m1, m2 \in matches :
        (m1.run # m2.run /\ Overlap(m1.run, m2.run)) => ~SamePair(m1, m2)

\* C4 as stated: every row of a run that finished normally is committed,
\* and no row of a run that failed part-way is ever committed, by the run or
\* by a later commit of its session.
C4_AsStated ==
    \A r \in DOMAIN runs :
        /\ runs[r].status = "done" => \A m \in AllPending : m.run # r
        /\ runs[r].status = "failed" => RunRows(r) = {}

\* The pairs a run on the first n products owes an edge when the scoring of
\* failed_pair alone is skipped: the score reaches the threshold and the
\* candidates of the source fit under max_matches.
OwedPairs(n, failed_pair) ==
    LET Good(p, o) ==
            /\ p # o
            /\ <<p, o>> # failed_pair
            /\ ScoreGe(calculate_similarity(NameOf(p), NameOf(o)), similarity_threshold)
    IN  {po \in (1..n) \X (1..n) :
            /\ Good(po[1], po[2])
            /\ max_matches.set =>
                  Cardinality({o \in 1..n : Good(po[1], o)}) <= max_matches.n}

\* C5 as stated: a run in which the scoring of one pair failed still commits
\* the edge of every other pair it owes one, so there is a pair such that
\* every owed pair but it has a committed row of the run.
C5_AsStated ==
    \A r \in DOMAIN runs :
        runs[r].status = "failed" =>
            LET n == runs[r].catalog
            IN  \E failed_pair \in (1..n) \X (1..n) :
                    \A po \in OwedPairs(n, failed_pair) :
                        \E m \in RunRows(r) :
                            /\ m.source_product_id = po[1]
                            /\ m.target_product_id = po[2]

\* C6: the product given never is among the candidates find_matches finds or
\* returns, and no ProductMatch row, added or committed, has its source as
\* its target.
C6_NoSelfMatch ==
    /\ \A s \in Sessions :
          /\ \A i \in DOMAIN found[s].matches : found[s].matches[i].id # found[s].product
          /\ \A i \in DOMAIN found[s].result : found[s].result[i].id # found[s].product
    /\ \A m \in matches \cup AllPending : m.source_product_id # m.target_product_id

\* C6 witness: find_matches has returned candidates while rows of an earlier
\* run are committed.
C6_Witness ==
    /\ matches # {}
    /\ \E s \in Sessions : found[s].called /\ found[s].result # <<>>

\* C7: before truncation, another product the query returned is among the
\* candidates of find_matches exactly if its score is at least
\* similarity_threshold, and it is listed with that score.
C7_ThresholdBoundary ==
    \A s \in Sessions :
        found[s].called =>
            LET p == found[s].product
                listed == {found[s].matches[i].id : i \in DOMAIN found[s].matches}
            IN  /\ \A o \in (1..found[s].seen) \ {p} :
                      o \in listed <=>
                          ScoreGe(calculate_similarity(NameOf(p), NameOf(o)),
                                  similarity_threshold)
                /\ \A i \in DOMAIN found[s].matches :
                      found[s].matches[i].score =
                          calculate_similarity(NameOf(p), NameOf(found[s].matches[i].id))
                /\ listed \subseteq 1..found[s].seen

\* C7 witness: of two other products, the one scoring exactly the threshold
\* is a candidate and the one scoring below it is not.
C7_Witness ==
    \E s \in Sessions :
        /\ found[s].called
        /\ \E i \in DOMAIN found[s].matches :
              ScoreEq(found[s].matches[i].score, similarity_threshold)
        /\ \E o \in (1..found[s].seen) \ {found[s].product} :
              /\ ScoreGt(similarity_threshold,
                         calculate_similarity(NameOf(found[s].product), NameOf(o)))
              /\ \A i \in DOMAIN found[s].matches : found[s].matches[i].id # o

\* Candidate x ranks before candidate y of product p: a higher score, or the
\* same score and a smaller identifier.
RanksBefore(p, x, y) ==
    LET sx == calculate_similarity(NameOf(p), NameOf(x))
        sy == calculate_similarity(NameOf(p), NameOf(y))
    IN  ScoreGt(sx, sy) \/ (ScoreEq(sx, sy) /\ x < y)

\* C8 as stated: find_matches returns the first max_matches (all, if unset)
\* of the qualifying candidates in descending order of score, equal scores in
\* ascending order of identifier, whatever order the store returned the rows in.
C8_AsStated ==
    \A s \in Sessions :
        found[s].called =>
            LET p == found[s].product
                qualifying ==
                    {o \in (1..found[s].seen) \ {p} :
                        ScoreGe(calculate_similarity(NameOf(p), NameOf(o)),
                                similarity_threshold)}
                n == Cardinality(qualifying)
                result == found[s].result
            IN  /\ Len(result) = IF max_matches.set THEN Min2(max_matches.n, n) ELSE n
                /\ \A i \in DOMAIN result :
                      /\ result[i].id \in qualifying
                      /\ Cardinality({y \in qualifying : RanksBefore(p, y, result[i].id)})
                            = i - 1

\* C9 as stated: a run creates no ProductMatch row whose source or target is a
\* product inserted after the run read the products.
C9_AsStated ==
    \A m \in matches \cup AllPending :
        /\ m.source_product_id <= runs[m.run].catalog
        /\ m.target_product_id <= runs[m.run].catalog

(***************************************************************************)
(* The specification of calculate_similarity as a function of its inputs.  *)
(***************************************************************************)
SimAlphabet == {"a", "A", "b"}

SimInit ==
    /\ StoreIdle
    /\ max_matches = MaxMatchesUnset
    /\ listing = Listing
    /\ simA \in StringsUpTo(SimAlphabet, MaxLen)
    /\ simB \in StringsUpTo(SimAlphabet, MaxLen)
    /\ simOut = <<0, 1>>
    /\ simPc = "call"
    /\ ConvOff
    /\ SizeOff
    /\ LoopOff

CalcSim ==
    /\ simPc = "call"
    /\ simOut' = calculate_similarity(simA, simB)
    /\ simPc' = "done"
    /\ UNCHANGED <<simA, simB, storeVars, sessVars, runs, convVars, sizeVars, loopVars>>

SimNext == CalcSim

SpecSim == SimInit /\ [][SimNext]_vars

(***************************************************************************)
(* C10.  The edit distance with unit-cost insert, delete and substitute    *)
(* (sub = 1), and the one in which a substitution costs as much as a       *)
(* delete followed by an insert (sub = 2).                                 *)
(***************************************************************************)
RECURSIVE EditDistance(_, _, _, _, _)
EditDistance(a, b, i, j, sub) ==
    IF i = 0 THEN j
    ELSE IF j = 0 THEN i
    ELSE Min2(Min2(EditDistance(a, b, i - 1, j, sub) + 1,
                   EditDistance(a, b, i, j - 1, sub) + 1),
              EditDistance(a, b, i - 1, j - 1, sub)
                  + (IF a[i] = b[j] THEN 0 ELSE sub))

\* 1 - dist / den as a fraction, and 1.0 when both strings are empty.
NormalizedScore(dist, den) == IF den = 0 THEN <<1, 1>> ELSE <<den - dist, den>>

\* C10 as stated: calculate_similarity(a, b) is
\* 1 - edit_distance(a, b) / max(len(a), len(b)) on the case-folded strings,
\* with unit-cost insert, delete and substitute, and 1.0 for two empty strings.
C10_AsStated ==
    simPc = "done" =>
        LET a == Lower(simA)
            b == Lower(simB)
        IN  ScoreEq(simOut,
                    NormalizedScore(EditDistance(a, b, Len(a), Len(b), 1),
                                    Max2(Len(a), Len(b))))

\* C10 amended: calculate_similarity(a, b) is
\* 1 - edit_distance(a, b) / (len(a) + len(b)) on the case-folded strings,
\* where insert and delete cost 1 and a substitution costs 2, and 1.0 for two
\* empty strings.
C10_IndelRatio ==
    simPc = "done" =>
        LET a == Lower(simA)
            b == Lower(simB)
        IN  ScoreEq(simOut,
                    NormalizedScore(EditDistance(a, b, Len(a), Len(b), 2),
                                    Len(a) + Len(b)))

\* C10 witness: a scored pair of names of different lengths and mixed case.
C10_Witness ==
    /\ simPc = "done"
    /\ simA = <<"A", "b">>
    /\ simB = <<"a", "a", "b">>
    /\ simOut = <<4, 5>>

(***************************************************************************)
(* C11.  The names that differ from s in letter case only.                 *)
(***************************************************************************)
CaseVariants(s) == {t \in StringsUpTo(SimAlphabet, MaxLen) : Lower(t) = Lower(s)}

\* C11: calculate_similarity(a, b) equals calculate_similarity(b, a), and the
\* score does not change when the letter case of either argument is changed.
C11_SymmetricCaseBlind ==
    simPc = "done" =>
        /\ simOut = calculate_similarity(simB, simA)
        /\ \A a \in CaseVariants(simA) : calculate_similarity(a, simB) = simOut
        /\ \A b \in CaseVariants(simB) : calculate_similarity(simA, b) = simOut

\* C11 witness: a scored pair of unequal names, one of them with an upper-case
\* letter, whose score is neither 0 nor 1.
C11_Witness ==
    /\ simPc = "done"
    /\ simA = <<"A", "b">>
    /\ simB = <<"b", "a">>
    /\ simOut = <<2, 4>>

(***************************************************************************)
(* The specification of normalize_price as a function of its inputs: one   *)
(* call, and the call back with the units exchanged when the first call    *)
(* returned a number.                                                      *)
(***************************************************************************)
ConvInit ==
    /\ StoreIdle
    /\ max_matches = MaxMatchesUnset
    /\ listing = Listing
    /\ SimOff
    /\ convPrice \in {FromNat(n) : n \in 1..MaxPrice}
    /\ convFrom \in Units
    /\ convTo \in Units
    /\ convOut = NoneValue
    /\ convBack = NoneValue
    /\ convPc = "call"
    /\ SizeOff
    /\ LoopOff

Convert ==
    /\ convPc = "call"
    /\ convOut' = normalize_price(convPrice, convFrom, convTo)
    /\ convPc' = IF convOut'.none THEN "done" ELSE "back"
    /\ UNCHANGED <<convPrice, convFrom, convTo, convBack,
                   storeVars, sessVars, runs, simVars, sizeVars, loopVars>>

ConvertBack ==
    /\ convPc = "back"
    /\ convBack' = normalize_price(convOut, convTo, convFrom)
    /\ convPc' = "done"
    /\ UNCHANGED <<convPrice, convFrom, convTo, convOut,
                   storeVars, sessVars, runs, simVars, sizeVars, loopVars>>

ConvNext == Convert \/ ConvertBack

SpecConv == ConvInit /\ [][ConvNext]_vars

(***************************************************************************)
(* C12.  The neighbours of a float: the next one up and the next one down. *)
(***************************************************************************)
NextUp(x) ==
    LET zeros == {i \in 1..Precision : x.bits[i] = 0}
        z == CHOOSE i \in zeros : \A j \in zeros : i <= j
    IN  IF zeros = {}
        THEN [none |-> FALSE,
              bits |-> [i \in 1..Precision |-> IF i = Precision THEN 1 ELSE 0],
              exp |-> x.exp + 1]
        ELSE [none |-> FALSE,
              bits |-> [i \in 1..Precision |->
                           IF i < z THEN 0 ELSE IF i = z THEN 1 ELSE x.bits[i]],
              exp |-> x.exp]

NextDown(x) ==
    LET z == CHOOSE i \in 1..Precision :
                 x.bits[i] = 1 /\ \A j \in 1..(i - 1) : x.bits[j] = 0
    IN  IF z = Precision
        THEN [none |-> FALSE, bits |-> [i \in 1..Precision |-> 1], exp |-> x.exp - 1]
        ELSE [none |-> FALSE,
              bits |-> [i \in 1..Precision |->
                           IF i < z THEN 1 ELSE IF i = z THEN 0 ELSE x.bits[i]],
              exp |-> x.exp]

\* The first call and the call back both returned a number.
RoundTripDone == convPc = "done" /\ ~convOut.none /\ ~convBack.none

\* C12 as stated: for every unit pair (A, B) with both directions defined and
\* every price x, normalize_price(normalize_price(x, A, B), B, A) equals x,
\* and for A = B the price is returned unchanged.
C12_AsStated == RoundTripDone => convBack = convPrice

\* C12 amended: the round trip returns x or one of the two floats next to x,
\* the two factors of the pair multiply to exactly 1.0, and for A = B both
\* calls return x itself.
C12_RoundTripOneUlp ==
    RoundTripDone =>
        /\ convBack \in {convPrice, NextUp(convPrice), NextDown(convPrice)}
        /\ convFrom = convTo => convOut = convPrice /\ convBack = convPrice
        /\ convFrom # convTo =>
               FMul(unit_conversion[convFrom][convTo],
                    unit_conversion[convTo][convFrom]) = FromNat(1)

\* C12 witness: the price 9 taken from g to kg and back comes out as the
\* float just above 9.
C12_Witness ==
    /\ RoundTripDone
    /\ convFrom = "g"
    /\ convTo = "kg"
    /\ convPrice = FromNat(9)
    /\ convBack = NextUp(convPrice)

(***************************************************************************)
(* C13.  The measurement family of a unit.                                 *)
(***************************************************************************)
Family(unit) ==
    CASE unit \in {"g", "kg"} -> "mass"
      [] unit \in {"ml", "l"} -> "volume"
      [] OTHER -> "count"

\* C13: for every price and every two units of different measurement
\* families, normalize_price returns None, a value and never a number, and
\* the call ends there.
C13_CrossFamilyNone ==
    (convPc \in {"back", "done"} /\ Family(convFrom) # Family(convTo)) =>
        /\ convOut = NoneValue
        /\ convPc = "done"

\* C13 witness: a price in grams asked for per count unit came back as None.
C13_Witness ==
    /\ convPc = "done"
    /\ convFrom = "g"
    /\ convTo = "unit"
    /\ convPrice = FromNat(2)
    /\ convOut = NoneValue

(***************************************************************************)
(* C14.                                                                    *)
(***************************************************************************)
\* The score of two products on their canonical names.
CanonicalScore(p, o) ==
    calculate_similarity(normalize_product_name(NameOf(p)),
                         normalize_product_name(NameOf(o)))

\* C14 as stated: find_matches keeps a candidate exactly if the similarity of
\* the two canonical names is at least the threshold, and lists it with that
\* score; so two products whose raw names differ only by the brand score 1.0
\* and are matched.
C14_AsStated ==
    \A s \in Sessions :
        found[s].called =>
            LET p == found[s].product
                listed == {found[s].matches[i].id : i \in DOMAIN found[s].matches}
            IN  /\ \A o \in (1..found[s].seen) \ {p} :
                      o \in listed <=> ScoreGe(CanonicalScore(p, o), similarity_threshold)
                /\ \A i \in DOMAIN found[s].matches :
                      ScoreEq(found[s].matches[i].score,
                              CanonicalScore(p, found[s].matches[i].id))

(***************************************************************************)
(* C15.  A record is saved when the body of the loop of save_prices runs   *)
(* to its end for it: it has every key the body reads on its way.          *)
(***************************************************************************)
IsSaved(tb, price_data) ==
    /\ {"name", "size", "unit", "chain_id", "branch_id", "price"} \subseteq price_data.keys
    /\ \/ \E i \in DOMAIN tb.supermarkets :
              /\ tb.supermarkets[i].chain_id = price_data.chain_id
              /\ tb.supermarkets[i].branch_id = price_data.branch_id
       \/ {"chain_name", "branch_name", "address"} \subseteq price_data.keys

\* The records of the batch, from the i-th on, that are saved.
RECURSIVE SavedCount(_, _, _)
SavedCount(tb, batch, i) ==
    IF i > Len(batch) THEN 0
    ELSE (IF IsSaved(tb, batch[i]) THEN 1 ELSE 0)
             + SavedCount(SaveOne(tb, batch[i]), batch, i + 1)

\* C15: in every step the rows of table prices stay as they are and in their
\* place, a save_prices call adds exactly one row behind them for every
\* record it saves, and no other call adds any.
C15_PricesAppendOnly ==
    [][/\ Len(prices') >= Len(prices)
       /\ SubSeq(prices', 1, Len(prices)) = prices
       /\ \A batch \in Batches :
              SaveAll(Tables, batch, 1) =
                  [products |-> products', supermarkets |-> supermarkets',
                   prices |-> prices']
                  => Len(prices') = Len(prices) + SavedCount(Tables, batch, 1)
       /\ pc[1] # "idle" => prices' = prices]_vars

\* C15 witness: two price rows of the same product at the same supermarket,
\* the second saved by a later call than the first.
C15_Witness ==
    /\ Len(prices) = 3
    /\ prices[1].product_id = prices[3].product_id
    /\ prices[1].supermarket_id = prices[3].supermarket_id
    /\ Len(runs) >= 1

(***************************************************************************)
(* C16.                                                                    *)
(***************************************************************************)
\* C16: in every step the rows of table products stay as they are and in
\* their place, a row that is added carries the (name, size, unit) of a record
\* of the price list, and no two rows carry the same (name, size, unit): a
\* product observed again, in the same batch or in a later one, gets no
\* second row.
C16_ProductLifecycle ==
    [][/\ Len(products') >= Len(products)
       /\ SubSeq(products', 1, Len(products)) = products
       /\ \A i \in (Len(products) + 1)..Len(products') :
              \E n \in DOMAIN listing :
                  products'[i] = [name |-> listing[n].name, size |-> listing[n].size,
                                  unit |-> listing[n].unit]
       /\ \A i, j \in DOMAIN products' : products'[i] = products'[j] => i = j]_vars

\* C16 witness: a product observed twice in one batch and again by a later
\* call, once in table products; a match run has been through the table.
C16_Witness ==
    /\ listing = ListingChains
    /\ Len(prices) = 3
    /\ \A n \in DOMAIN prices : products[prices[n].product_id].name = NameAb
    /\ Cardinality({i \in DOMAIN products : products[i].name = NameAb}) = 1
    /\ \E r \in DOMAIN runs : runs[r].status = "done"

(***************************************************************************)
(* C17.                                                                    *)
(***************************************************************************)
\* Run r began on an empty match table and without a cap that could cut the
\* candidates of a product short.
OnEmptyTableUncut(r) ==
    /\ \A m \in matches \cup AllPending : m.run >= r
    /\ max_matches.set => max_matches.n >= runs[r].catalog - 1

\* C17: the edges created by a completed run that began on an empty match
\* table, with max_matches unset or at least the catalog size less one, are
\* symmetric: with (a, b) the run created (b, a), with the same score.
C17_SymmetricEdges ==
    \A r \in DOMAIN runs :
        (runs[r].status = "done" /\ OnEmptyTableUncut(r)) =>
            \A m \in RunRows(r) :
                \E back \in RunRows(r) :
                    /\ back.source_product_id = m.target_product_id
                    /\ back.target_product_id = m.source_product_id
                    /\ back.similarity_score = m.similarity_score

\* C17 witness: a completed first run over three products that created the
\* edges between the first product and each of the other two, both ways.
C17_Witness ==
    /\ Len(runs) >= 1
    /\ runs[1].status = "done"
    /\ runs[1].catalog = 3
    /\ OnEmptyTableUncut(1)
    /\ {<<m.source_product_id, m.target_product_id>> : m \in RunRows(1)}
           = {<<1, 2>>, <<2, 1>>, <<1, 3>>, <<3, 1>>}

(***************************************************************************)
(* C18.                                                                    *)
(***************************************************************************)
\* The rows of the price list that raise an error in save_prices whatever
\* the tables hold: those without a chain_id or a branch_id.
FailingRows ==
    {n \in DOMAIN listing : ~({"chain_id", "branch_id"} \subseteq listing[n].keys)}

\* C18 as stated: the commit of save_prices persists no row that originates
\* from a record whose processing raised an error, so every row of table
\* products has the (name, size, unit) of a record that raised none, and
\* every row of table products has at least one row of table prices.
C18_AsStated ==
    \A i \in DOMAIN products :
        /\ \E n \in DOMAIN listing \ FailingRows :
               products[i] = [name |-> listing[n].name, size |-> listing[n].size,
                              unit |-> listing[n].unit]
        /\ \E k \in DOMAIN prices : prices[k].product_id = i

(***************************************************************************)
(* SupermarketPriceTracker.run: the loop, by its steps.  What the steps do *)
(* to the store is specified above; here a step is its outcome, returned   *)
(* or raised.                                                              *)
(***************************************************************************)
\* The chains the tracker has a scraper for.
Chains == {"rami_levy", "shufersal", "yochananof", "tiv_taam", "victory"}

LoopInit ==
    /\ StoreIdle
    /\ max_matches = MaxMatchesUnset
    /\ listing = Listing
    /\ SimOff
    /\ ConvOff
    /\ SizeOff
    /\ loopPc = "collect"
    /\ collected = {}
    /\ outcome = "none"

\* collect_prices(): every chain is scraped; a scrape that raises is logged
\* and the next chain is tried, so the call always returns.
LoopCollect ==
    /\ loopPc = "collect"
    /\ \E delivered \in SUBSET Chains : collected' = delivered
    /\ loopPc' = "save"
    /\ UNCHANGED <<outcome, storeVars, sessVars, runs, simVars, convVars, sizeVars>>

\* save_prices(prices) returns.
LoopSave ==
    /\ loopPc = "save"
    /\ loopPc' = "match"
    /\ UNCHANGED <<collected, outcome, storeVars, sessVars, runs, simVars, convVars,
                   sizeVars>>

\* A variant in which an error of save_prices ends the loop.
LoopSaveRaiseUncaught ==
    /\ loopPc = "save"
    /\ loopPc' = "stopped"
    /\ outcome' = "failed"
    /\ UNCHANGED <<collected, storeVars, sessVars, runs, simVars, convVars, sizeVars>>

\* save_prices(prices) raises (its commit may): the handler of the loop logs
\* the error and goes on to sleep a minute.
LoopSaveRaise ==
    /\ loopPc = "save"
    /\ loopPc' = "retry_wait"
    /\ outcome' = "failed"
    /\ UNCHANGED <<collected, storeVars, sessVars, runs, simVars, convVars, sizeVars>>

\* match_products(): returns whether match_all_products returned or raised.
LoopMatch ==
    /\ loopPc = "match"
    /\ \E raised \in BOOLEAN : outcome' = IF raised THEN "match_failed" ELSE "ok"
    /\ loopPc' = "wait"
    /\ UNCHANGED <<collected, storeVars, sessVars, runs, simVars, convVars, sizeVars>>

\* time.sleep(SCRAPING_INTERVAL) returns.
LoopWait ==
    /\ loopPc = "wait"
    /\ loopPc' = "collect"
    /\ UNCHANGED <<collected, outcome, storeVars, sessVars, runs, simVars, convVars,
                   sizeVars>>

\* time.sleep(60) of the handler returns.
LoopRetryWait ==
    /\ loopPc = "retry_wait"
    /\ loopPc' = "collect"
    /\ UNCHANGED <<collected, outcome, storeVars, sessVars, runs, simVars, convVars,
                   sizeVars>>

LoopNext ==
    \/ LoopCollect
    \/ LoopSave
    \/ LoopSaveRaise
    \/ LoopMatch
    \/ LoopWait
    \/ LoopRetryWait

\* Every step of the loop ends: the scrapes have a timeout and the sleeps are
\* finite, so the loop is never left waiting forever in one step.
SpecLoop == LoopInit /\ [][LoopNext]_vars /\ WF_vars(LoopNext)

\* C19: the steps of a cycle come in the order collect_prices, save_prices,
\* match_products, wait; no failure ends the loop: a failed save_prices leads
\* to the wait of the handler and a failed scrape or a failed matching to the
\* next step; and after the wait of every cycle, successful or failed, the
\* next collect_prices is started.
C19_LoopKeepsCycling ==
    /\ [][/\ loopPc = "collect" => loopPc' = "save"
          /\ loopPc = "save" => loopPc' \in {"match", "retry_wait"}
          /\ loopPc = "match" => loopPc' = "wait"
          /\ loopPc \in {"wait", "retry_wait"} => loopPc' = "collect"]_vars
    /\ [](loopPc \in {"collect", "save", "match", "wait", "retry_wait"})
    /\ (loopPc \in {"wait", "retry_wait"}) ~> (loopPc = "collect")
    /\ []<>(loopPc = "collect")

\* C19 witness: after a cycle whose matching failed, the next collect_prices
\* has run, and in it the scrape of one chain failed.
C19_Witness ==
    /\ loopPc = "save"
    /\ outcome = "match_failed"
    /\ collected = Chains \ {"rami_levy"}

(***************************************************************************)
(* The specification of extract_product_size as a function of its input.   *)
(***************************************************************************)
\* str(n) for a natural number n.
RECURSIVE Numeral(_)
Numeral(n) ==
    IF n < 10 THEN <<DigitSeq[n + 1]>>
    ELSE Append(Numeral(n \div 10), DigitSeq[(n % 10) + 1])

\* The names drawn: a letter, a whole number, a space or none, a unit word;
\* and two names without a size phrase.
SizeNames ==
    {<<"a">> \o Numeral(n) \o sep \o <<word>> :
        n \in (1..MaxSize) \cup {500}, sep \in {<<>>, <<" ">>}, word \in UnitWordSet}
        \cup {NameAb, <<"a", "1">>}

SizeInit ==
    /\ StoreIdle
    /\ max_matches = MaxMatchesUnset
    /\ listing = Listing
    /\ SimOff
    /\ ConvOff
    /\ LoopOff
    /\ sizeName \in SizeNames
    /\ sizeOut = [size |-> NoneValue, unit |-> "unit"]
    /\ sizePc = "call"

ExtractSize ==
    /\ sizePc = "call"
    /\ sizeOut' = extract_product_size(sizeName)
    /\ sizePc' = "done"
    /\ UNCHANGED <<sizeName, storeVars, sessVars, runs, simVars, convVars, loopVars>>

SizeNext == ExtractSize

SpecSize == SizeInit /\ [][SizeNext]_vars

(***************************************************************************)
(* C20.                                                                    *)
(***************************************************************************)
\* The unit a unit word names.
UnitOfWord(word) ==
    size_patterns[CHOOSE p \in DOMAIN size_patterns : size_patterns[p].word = word].unit

\* The factor from a unit to the smallest unit of its family (g, ml, unit).
BaseFactor(unit) == IF unit \in {"kg", "l"} THEN Thousand ELSE FromNat(1)

\* (size1, unit1) and (size2, unit2) denote the same physical quantity.
SameQuantity(size1, unit1, size2, unit2) ==
    /\ Family(unit1) = Family(unit2)
    /\ FMul(size1, BaseFactor(unit1)) = FMul(size2, BaseFactor(unit2))

\* C20 as stated: for a name with a number n followed by a recognised unit
\* word, extract_product_size returns a (size, unit) that denotes n of the
\* unit of that word; for a name without a size phrase it returns (1.0, 'unit').
C20_AsStated ==
    sizePc = "done" =>
        LET start == SearchStart(sizeName, UnitWordSet)
            n == ParseFloat(SubSeq(sizeName, start, GroupEnd(sizeName, start, UnitWordSet)))
            word == sizeName[PhraseEnd(sizeName, start, UnitWordSet)]
        IN  IF start = 0 THEN sizeOut = [size |-> FromNat(1), unit |-> "unit"]
            ELSE SameQuantity(sizeOut.size, sizeOut.unit, n, UnitOfWord(word))

====
